---- MODULE Spec2Model ----
(***************************************************************************)
(* ZkPrimeCore: the confidential-compute job client and the private-state  *)
(* client, with the symmetric envelope, digest and chain helpers they use. *)
(*                                                                         *)
(* Byte strings and text are symbolic terms (tuples whose first element is *)
(* a tag).  SHA-256, AES-256-GCM, hex, base64 and the 32-character prefix  *)
(* of a digest are modelled as free constructors: two terms are equal      *)
(* exactly when they were built the same way (no digest collisions).       *)
(* randomBytes, Date.now, the chain RPC and the coordinator's HTTP answers *)
(* are inputs chosen nondeterministically.                                 *)
(***************************************************************************)
EXTENDS Naturals, Sequences, FiniteSets, TLC

VARIABLES config, registry, mockJobs, schemaRegistry, hist, last

vars == <<config, registry, mockJobs, schemaRegistry, hist, last>>

(***************************** bounds and inputs ****************************)
MaxNonce == 2
MaxJobs == 2

Nonces == 1..MaxNonce
Owners == {"ownerA", "ownerB"}
JobOwners == {"ownerA"}
JobTypes == {"score"}
JobTypeArgs == {"score", "rank"}
Times == {1}

None == <<"none">>

(* Uint8Array inputs: a 6-byte seed and a 32-byte seed. *)
Seeds == {<<"raw", 6, 1>>, <<"raw", 32, 2>>}

(******************************* hashing.ts ********************************)
sha256(data) == <<"sha256", data>>

toHex(bytes) == <<"hex", bytes>>

hashCommitment(data) == toHex(sha256(data))

(* String.prototype.slice(0, n) of a hex string, and string concatenation. *)
slice(s, n) == <<"slice", s, 0, n>>

concat(a, b) == <<"cat", a, b>>

ByteLen(b) ==
  CASE b[1] = "raw" -> b[2]
    [] b[1] = "sha256" -> 32
    [] b[1] = "iv" -> 12
    [] b[1] = "tag" -> 16
    [] b[1] = "gcm" -> Len(b[4])
    [] b[1] = "prefix" -> b[3]
    [] OTHER -> 0

RECURSIVE StrLen(_)
StrLen(s) ==
  CASE s[1] = "hex" -> 2 * ByteLen(s[2])
    [] s[1] = "slice" -> IF StrLen(s[2]) < s[4] THEN StrLen(s[2]) ELSE s[4]
    [] OTHER -> 0

(************************* JSON.stringify / JSON.parse **********************)
(* Values: numbers, strings of digits, null, one-key objects, and the       *)
(* number NaN, which JSON.stringify writes as null.  Text is a sequence of   *)
(* one-character strings.                                                    *)
NumV(n) == <<"num", n>>
StrV(s) == <<"str", s>>
ObjV(k, v) == <<"obj", k, v>>
NullV == <<"null">>
NaNV == <<"nan">>

NullText == <<"n", "u", "l", "l">>

DigitChars == <<"0", "1", "2", "3", "4", "5", "6", "7", "8", "9">>

RECURSIVE NumToText(_)
NumToText(n) ==
  IF n < 10 THEN <<DigitChars[n + 1]>>
  ELSE NumToText(n \div 10) \o <<DigitChars[(n % 10) + 1]>>

RECURSIVE JSONStringify(_)
JSONStringify(v) ==
  CASE v[1] = "num" -> NumToText(v[2])
    [] v[1] = "null" -> NullText
    [] v[1] = "nan" -> NullText
    [] v[1] = "str" -> <<"\"">> \o v[2] \o <<"\"">>
    [] v[1] = "obj" ->
         <<"{", "\"">> \o v[2] \o <<"\"", ":">> \o JSONStringify(v[3]) \o <<"}">>

IsDigit(c) == \E i \in 1..10 : DigitChars[i] = c

DigitVal(c) == (CHOOSE i \in 1..10 : DigitChars[i] = c) - 1

RECURSIVE TextToNum(_)
TextToNum(t) ==
  IF Len(t) = 1 THEN DigitVal(t[1])
  ELSE 10 * TextToNum(SubSeq(t, 1, Len(t) - 1)) + DigitVal(t[Len(t)])

ParseFail == [ok |-> FALSE, val |-> None]

RECURSIVE JSONParse(_)
JSONParse(t) ==
  IF Len(t) = 0 THEN ParseFail
  ELSE IF t[1] = "{" THEN
    IF Len(t) < 6 \/ t[Len(t)] # "}" \/ t[2] # "\"" THEN ParseFail
    ELSE
      LET qs == {i \in 3..Len(t) : t[i] = "\""} IN
      IF qs = {} THEN ParseFail
      ELSE
        LET q == CHOOSE i \in qs : \A j \in qs : i <= j IN
        IF q + 1 >= Len(t) \/ t[q + 1] # ":" THEN ParseFail
        ELSE
          LET inner == JSONParse(SubSeq(t, q + 2, Len(t) - 1)) IN
          IF inner.ok
          THEN [ok |-> TRUE, val |-> ObjV(SubSeq(t, 3, q - 1), inner.val)]
          ELSE ParseFail
  ELSE IF t[1] = "\"" THEN
    IF Len(t) >= 2 /\ t[Len(t)] = "\"" /\ \A i \in 2..(Len(t) - 1) : t[i] # "\""
    THEN [ok |-> TRUE, val |-> StrV(SubSeq(t, 2, Len(t) - 1))]
    ELSE ParseFail
  ELSE IF t = NullText THEN [ok |-> TRUE, val |-> NullV]
  ELSE IF (\A i \in 1..Len(t) : IsDigit(t[i])) /\ (Len(t) = 1 \/ t[1] # "0")
    THEN [ok |-> TRUE, val |-> NumV(TextToNum(t))]
  ELSE ParseFail

Values == {ObjV(<<"b">>, NumV(42)), ObjV(<<"b">>, StrV(<<"4", "2">>))}
JobInputs == {ObjV(<<"u">>, StrV(<<"7">>))}

(****************************** encryption.ts ******************************)
deriveKeyFromSeed(seed) == sha256(seed)

normalizeKeyAlwaysDeriving(seedOrKey) == deriveKeyFromSeed(seedOrKey)

normalizeKey(seedOrKey) ==
  IF ByteLen(seedOrKey) = 32 THEN seedOrKey ELSE deriveKeyFromSeed(seedOrKey)

ensureKey(key) == ByteLen(key) = 32

randomBytes(n) == <<"iv", n>>

(* AES-256-GCM: the ciphertext and the tag are functions of key, nonce and *)
(* plaintext.                                                              *)
gcmCipherIgnoringNonce(key, iv, text) == <<"gcm", key, randomBytes(0), text>>

gcmCipher(key, iv, text) == <<"gcm", key, iv, text>>
gcmTag(key, iv, text) == <<"tag", key, iv, text>>

(* The first n bytes of a tag.  A decipher created without authTagLength    *)
(* takes a tag of any length GCM allows and verifies that many bytes.       *)
GcmTagLengths == {4, 8, 12, 13, 14, 15, 16}

tagPrefix(tag, n) == <<"prefix", tag, n>>

gcmTagVerifies(tag, key, iv, text) ==
  \/ tag = gcmTag(key, iv, text)
  \/ /\ tag[1] = "prefix"
     /\ tag[2] = gcmTag(key, iv, text)
     /\ tag[3] \in GcmTagLengths

encryptPayload(data, key, n) ==
  IF ~ensureKey(key) THEN [err |-> "CryptoError", val |-> None]
  ELSE
    LET json == JSONStringify(data)
        iv == randomBytes(n)
    IN [err |-> "none",
        val |-> [alg |-> "AES-GCM", iv |-> iv,
                 ciphertext |-> gcmCipher(key, iv, json),
                 tag |-> gcmTag(key, iv, json)]]

decryptPayload(payload, key) ==
  IF ~ensureKey(key) THEN [err |-> "CryptoError", val |-> None]
  ELSE IF payload.alg # "AES-GCM" THEN [err |-> "CryptoError", val |-> None]
  ELSE
    LET ct == payload.ciphertext
        authentic == /\ ct[1] = "gcm"
                     /\ ct[2] = key
                     /\ ct[3] = payload.iv
                     /\ gcmTagVerifies(payload.tag, key, payload.iv, ct[4])
    IN IF ~authentic THEN [err |-> "CryptoError", val |-> None]
       ELSE LET parsed == JSONParse(ct[4]) IN
            IF parsed.ok THEN [err |-> "none", val |-> parsed.val]
            ELSE [err |-> "CryptoError", val |-> None]

(* Buffer.toString('base64') and Buffer.from(s, 'base64'). *)
toBase64(bytes) == <<"b64", bytes>>

fromBase64(s) == IF s[1] = "b64" THEN s[2] ELSE <<"raw", 0, 0>>

(****************************** configuration ******************************)
Configured(opt) == opt # ""

ComputeConfigs ==
  [rpcEndpoint : {"rpc"}, programId : {""},
   computeProgramId : {"", "computeProg"}, provingServiceUrl : {"", "coord"}]

StateConfigs ==
  [rpcEndpoint : {"rpc"}, programId : {"", "stateProg"},
   computeProgramId : {""}, provingServiceUrl : {"", "coord"}]

(**************************** solana/transactions ***************************)
NoWallet == [given |-> FALSE, publicKey |-> FALSE, signTransaction |-> FALSE]

WalletAdapters ==
  {NoWallet,
   [given |-> TRUE, publicKey |-> TRUE, signTransaction |-> TRUE],
   [given |-> TRUE, publicKey |-> FALSE, signTransaction |-> TRUE],
   [given |-> TRUE, publicKey |-> TRUE, signTransaction |-> FALSE]}

(* What the RPC node does with this call: the blockhash request or the      *)
(* send may fail.                                                           *)
NetOutcomes == {"ok", "blockhashFails", "sendFails"}

FullWallet == [given |-> TRUE, publicKey |-> TRUE, signTransaction |-> TRUE]

(* The wallet adapter a caller passes and the RPC node's behaviour during   *)
(* the call; the node only matters to a wallet that can sign.               *)
ChainEnvs(programId) ==
  IF Configured(programId)
  THEN {[walletAdapter |-> w, net |-> "ok"] : w \in WalletAdapters}
       \cup {[walletAdapter |-> FullWallet, net |-> o] : o \in NetOutcomes}
  ELSE {[walletAdapter |-> w, net |-> "ok"] : w \in {NoWallet, FullWallet}}

(* if (programId && walletAdapter) *)
onChainWithoutProgramId(programId, walletAdapter) == walletAdapter.given

onChainConfigured(programId, walletAdapter) ==
  Configured(programId) /\ walletAdapter.given

createInstruction(programId, data) == <<"ix", programId, data>>

(* A helper whose failures never reach its caller. *)
buildAndSendTransactionSwallowing(walletAdapter, ix, net) ==
  [err |-> "none", txSig |-> None, sends |-> 0]

buildAndSendTransaction(walletAdapter, ix, net) ==
  IF ~walletAdapter.given \/ ~walletAdapter.publicKey
  THEN [err |-> "RPCError", txSig |-> None, sends |-> 0]
  ELSE IF net = "blockhashFails"
  THEN [err |-> "Error", txSig |-> None, sends |-> 0]
  ELSE IF walletAdapter.signTransaction
  THEN IF net = "sendFails"
       THEN [err |-> "Error", txSig |-> None, sends |-> 1]
       ELSE [err |-> "none", txSig |-> <<"sig", ix>>, sends |-> 1]
  ELSE [err |-> "RPCError", txSig |-> None, sends |-> 0]

(************************* ConfidentialComputeClient ************************)
Statuses == {"PENDING", "RUNNING", "COMPLETED", "FAILED"}

EmptyMap == [x \in {} |-> None]

(* Map.prototype.set *)
MapSetDroppingOthers(m, k, v) == [x \in {k} |-> v]

MapSetIfAbsent(m, k, v) ==
  [x \in (DOMAIN m) \cup {k} |-> IF x \in DOMAIN m THEN m[x] ELSE v]

MapSet(m, k, v) == [x \in (DOMAIN m) \cup {k} |-> IF x = k THEN v ELSE m[x]]

(* The id of a job or of a state: the first 32 characters of the hex digest *)
(* of the commitment followed by the owner.                                 *)
deriveIdWithoutOwner(commitment, owner) == slice(hashCommitment(commitment), 32)

deriveId(commitment, owner) == slice(hashCommitment(concat(commitment, owner)), 32)

registerJobType(reg, def) ==
  IF def.name = "" THEN [res |-> "Error", registry |-> reg]
  ELSE [res |-> "ok", registry |-> MapSet(reg, def.name, def)]

jobTypeRegisteredAny(reg, jobType) == TRUE

jobTypeRegistered(reg, jobType) == jobType \in DOMAIN reg

(* What the coordinator does with the POST to /submit-job. *)
PostOutcomes == {"ok", "networkError", "notOk"}

(* try { await fetch(url, ...) } catch (e) { }: one request, and neither a  *)
(* rejected fetch nor a non-success response reaches the caller.            *)
postSubmitJobThrowing(post) ==
  [err |-> IF post = "networkError" THEN "Error" ELSE "none", http |-> 1]

(* A POST that is sent a second time when the first attempt fails. *)
postSubmitJobRetrying(post) ==
  [err |-> "none", http |-> IF post = "ok" THEN 1 ELSE 2]

postSubmitJob(post) == [err |-> "none", http |-> 1]

newJobRecordRunning(jobId, params, commitment, now) ==
  [id |-> jobId, owner |-> params.owner, jobType |-> params.jobType,
   commitment |-> commitment, status |-> "RUNNING", createdAt |-> now,
   resultRef |-> None]

newJobRecordWithResultRef(jobId, params, commitment, now) ==
  [id |-> jobId, owner |-> params.owner, jobType |-> params.jobType,
   commitment |-> commitment, status |-> "PENDING", createdAt |-> now,
   resultRef |-> toBase64(<<"json", [iv |-> toBase64(randomBytes(1)),
                                     tag |-> toBase64(randomBytes(1)),
                                     ciphertext |-> toBase64(randomBytes(1))]>>)]

newJobRecord(jobId, params, commitment, now) ==
  [id |-> jobId, owner |-> params.owner, jobType |-> params.jobType,
   commitment |-> commitment, status |-> "PENDING", createdAt |-> now,
   resultRef |-> None]

submitJob(cfg, reg, jobs, params, walletAdapter, n, net, post, now) ==
  IF ~jobTypeRegistered(reg, params.jobType)
  THEN [res |-> "NotFoundError", jobId |-> None, txSig |-> None, commitment |-> None,
        mockJobs |-> jobs, enc |-> 0, chain |-> 0, sends |-> 0, http |-> 0]
  ELSE
    LET key == normalizeKey(params.symmetricKeySeed)
        encR == encryptPayload(params.input, key, n)
    IN
    IF encR.err # "none"
    THEN [res |-> encR.err, jobId |-> None, txSig |-> None, commitment |-> None,
          mockJobs |-> jobs, enc |-> 1, chain |-> 0, sends |-> 0, http |-> 0]
    ELSE
      LET encrypted == encR.val
          commitment == hashCommitment(encrypted.ciphertext)
          jobId == deriveId(commitment, params.owner)
          onChain == onChainConfigured(cfg.computeProgramId, walletAdapter)
          ix == createInstruction(cfg.computeProgramId,
                                  <<"submit_job", jobId, commitment, params.jobType>>)
          tx == IF onChain THEN buildAndSendTransaction(walletAdapter, ix, net)
                ELSE [err |-> "none", txSig |-> None, sends |-> 0]
          chainCalls == IF onChain THEN 1 ELSE 0
      IN
      IF tx.err # "none"
      THEN [res |-> tx.err, jobId |-> None, txSig |-> None, commitment |-> None,
            mockJobs |-> jobs,
            enc |-> 1, chain |-> chainCalls, sends |-> tx.sends, http |-> 0]
      ELSE IF Configured(cfg.provingServiceUrl)
      THEN LET sent == postSubmitJob(post) IN
           IF sent.err # "none"
           THEN [res |-> sent.err, jobId |-> None, txSig |-> None, commitment |-> None,
                 mockJobs |-> jobs,
                 enc |-> 1, chain |-> chainCalls, sends |-> tx.sends, http |-> sent.http]
           ELSE [res |-> "ok", jobId |-> jobId, txSig |-> tx.txSig,
                 commitment |-> commitment, mockJobs |-> jobs,
                 enc |-> 1, chain |-> chainCalls, sends |-> tx.sends, http |-> sent.http]
      ELSE [res |-> "ok", jobId |-> jobId, txSig |-> tx.txSig,
            commitment |-> commitment,
            mockJobs |-> MapSet(jobs, jobId, newJobRecord(jobId, params, commitment, now)),
            enc |-> 1, chain |-> chainCalls, sends |-> tx.sends, http |-> 0]

(* What the coordinator answers to GET /job-status/<id>; status "" is a     *)
(* body without a status field.                                             *)
StatusResponses ==
  {[kind |-> "networkError", status |-> ""], [kind |-> "notOk", status |-> ""],
   [kind |-> "badJson", status |-> ""]}
  \cup {[kind |-> "ok", status |-> st] : st \in Statuses \cup {""}}

NoResponse == [kind |-> "none", status |-> ""]

(* A lookup that answers PENDING for a job the store does not hold. *)
mockLookupAssumingPending(jobs, jobId) ==
  IF jobId \notin DOMAIN jobs
  THEN [res |-> "ok", val |-> "PENDING"]
  ELSE [res |-> "ok", val |-> jobs[jobId].status]

mockLookup(jobs, jobId) ==
  IF jobId \notin DOMAIN jobs
  THEN [res |-> "NotFoundError", val |-> ""]
  ELSE [res |-> "ok", val |-> jobs[jobId].status]

getJobStatusSurfacing(cfg, jobs, jobId, resp) ==
  IF Configured(cfg.provingServiceUrl)
  THEN IF resp.kind = "ok"
       THEN [res |-> "ok", val |-> IF resp.status # "" THEN resp.status ELSE "PENDING",
             http |-> 1]
       ELSE [res |-> "Error", val |-> "", http |-> 1]
  ELSE mockLookup(jobs, jobId) @@ [http |-> 0]

getJobStatus(cfg, jobs, jobId, resp) ==
  IF Configured(cfg.provingServiceUrl)
  THEN IF resp.kind = "ok"
       THEN [res |-> "ok", val |-> IF resp.status # "" THEN resp.status ELSE "PENDING",
             http |-> 1]
       ELSE mockLookup(jobs, jobId) @@ [http |-> 1]
  ELSE mockLookup(jobs, jobId) @@ [http |-> 0]

(* The envelopes a coordinator serves and a caller decrypts. *)
ResultEnvelopes ==
  {encryptPayload(v, normalizeKey(sd), 1).val : v \in Values, sd \in Seeds}

(* The envelopes a test hands to _setMockResult: one value under each seed. *)
MockResultEnvelopes ==
  {encryptPayload(ObjV(<<"b">>, NumV(42)), normalizeKey(sd), 1).val : sd \in Seeds}

serializeResult(encryptedPayload) ==
  toBase64(<<"json", [iv |-> toBase64(encryptedPayload.iv),
                      tag |-> toBase64(encryptedPayload.tag),
                      ciphertext |-> toBase64(encryptedPayload.ciphertext)]>>)

completeRecordKeepsStatus(record, resultRef) ==
  [record EXCEPT !.resultRef = resultRef]

(* A completion that marks the record COMPLETED without attaching the result. *)
completeRecordDroppingResult(record, resultRef) ==
  [record EXCEPT !.status = "COMPLETED"]

completeRecord(record, resultRef) ==
  [record EXCEPT !.resultRef = resultRef, !.status = "COMPLETED"]

setMockResult(jobs, jobId, encryptedPayload) ==
  IF jobId \notin DOMAIN jobs
  THEN [res |-> "NotFoundError", mockJobs |-> jobs]
  ELSE [res |-> "ok",
        mockJobs |-> MapSet(jobs, jobId,
                            completeRecord(jobs[jobId], serializeResult(encryptedPayload)))]

(* What the coordinator answers to GET /job-result/<id>. *)
ResultResponses ==
  {[kind |-> "networkError", body |-> None], [kind |-> "notOk", body |-> None]}
  \cup {[kind |-> "ok", body |-> fromBase64(serializeResult(e))[2]] : e \in ResultEnvelopes}

NoResultResponse == [kind |-> "none", body |-> None]

fetchResult(cfg, jobs, jobId, symmetricKeySeed, resp) ==
  IF Configured(cfg.provingServiceUrl)
  THEN IF resp.kind = "networkError"
       THEN [res |-> "Error", val |-> None, http |-> 1, dec |-> 0]
       ELSE IF resp.kind # "ok"
       THEN [res |-> "NotFoundError", val |-> None, http |-> 1, dec |-> 0]
       ELSE
         LET payload == [alg |-> "AES-GCM",
                         iv |-> fromBase64(resp.body.iv),
                         ciphertext |-> fromBase64(resp.body.ciphertext),
                         tag |-> fromBase64(resp.body.tag)]
             key == normalizeKey(symmetricKeySeed)
             d == decryptPayload(payload, key)
         IN [res |-> IF d.err = "none" THEN "ok" ELSE d.err, val |-> d.val,
             http |-> 1, dec |-> 1]
  ELSE IF jobId \notin DOMAIN jobs
  THEN [res |-> "NotFoundError", val |-> None, http |-> 0, dec |-> 0]
  ELSE IF jobs[jobId].resultRef = None
  THEN [res |-> "NotFoundError", val |-> None, http |-> 0, dec |-> 0]
  ELSE
    LET decoded == fromBase64(jobs[jobId].resultRef)
        payload == decoded[2]
        ep == [alg |-> "AES-GCM",
               iv |-> fromBase64(payload.iv),
               ciphertext |-> fromBase64(payload.ciphertext),
               tag |-> fromBase64(payload.tag)]
        key == deriveKeyFromSeed(symmetricKeySeed)
        d == decryptPayload(ep, key)
    IN [res |-> IF d.err = "none" THEN "ok" ELSE d.err, val |-> d.val,
        http |-> 0, dec |-> 1]

(***************************** PrivateStateClient ***************************)
Field == [name |-> "balance", type |-> "u64"]

(* Schemas a caller may pass: two valid ones with the same id, and ones     *)
(* lacking an id, a name, or fields (empty or not an array).                *)
SchemaArgs ==
  {[id |-> "s1", name |-> "Balance", fields |-> [isArray |-> TRUE, items |-> <<Field>>]],
   [id |-> "s1", name |-> "BalanceV2", fields |-> [isArray |-> TRUE, items |-> <<Field>>]],
   [id |-> "", name |-> "Balance", fields |-> [isArray |-> TRUE, items |-> <<Field>>]],
   [id |-> "s1", name |-> "", fields |-> [isArray |-> TRUE, items |-> <<Field>>]],
   [id |-> "s1", name |-> "Balance", fields |-> [isArray |-> TRUE, items |-> <<>>]],
   [id |-> "s1", name |-> "Balance", fields |-> [isArray |-> FALSE, items |-> <<>>]]}

SchemaIdArgs == {"s1", "s2"}

defineSchema(schemas, schema) ==
  IF schema.id = "" \/ schema.name = "" \/ ~schema.fields.isArray
     \/ Len(schema.fields.items) = 0
  THEN [res |-> "SchemaError", schemaRegistry |-> schemas]
  ELSE [res |-> "ok", schemaRegistry |-> MapSet(schemas, schema.id, schema)]

getSchemaLenient(schemas, schemaId) ==
  IF schemaId \notin DOMAIN schemas
  THEN [res |-> "ok", val |-> None]
  ELSE [res |-> "ok", val |-> schemas[schemaId]]

getSchema(schemas, schemaId) ==
  IF schemaId \notin DOMAIN schemas
  THEN [res |-> "NotFoundError", val |-> None]
  ELSE [res |-> "ok", val |-> schemas[schemaId]]

StateFailure(res, enc, chain, sends) ==
  [res |-> res, state |-> None, encrypted |-> None,
   enc |-> enc, chain |-> chain, sends |-> sends]

createState(cfg, schemas, params, walletAdapter, n, net) ==
  IF getSchema(schemas, params.schemaId).res # "ok"
  THEN StateFailure("NotFoundError", 0, 0, 0)
  ELSE
    LET key == normalizeKey(params.symmetricKeySeed)
        encR == encryptPayload(params.data, key, n)
    IN
    IF encR.err # "none" THEN StateFailure(encR.err, 1, 0, 0)
    ELSE
      LET encrypted == encR.val
          commitment == hashCommitment(encrypted.ciphertext)
          onChain == onChainConfigured(cfg.programId, walletAdapter)
          ix == createInstruction(cfg.programId, <<"create", commitment>>)
          tx == IF onChain THEN buildAndSendTransaction(walletAdapter, ix, net)
                ELSE [err |-> "none", txSig |-> None, sends |-> 0]
          chainCalls == IF onChain THEN 1 ELSE 0
      IN
      IF tx.err # "none" THEN StateFailure(tx.err, 1, chainCalls, tx.sends)
      ELSE [res |-> "ok",
            state |-> [id |-> deriveId(commitment, params.owner),
                       commitment |-> commitment, owner |-> params.owner],
            encrypted |-> encrypted,
            enc |-> 1, chain |-> chainCalls, sends |-> tx.sends]

(* An updateState that looks previousCommitment up and rejects an unknown  *)
(* one.                                                                     *)
updateStateCheckingPrevious(cfg, schemas, params, walletAdapter, n, net) ==
  IF params.previousCommitment = hashCommitment(<<"raw", 3, 9>>)
  THEN StateFailure("NotFoundError", 0, 0, 0)
  ELSE createState(cfg, schemas, params, walletAdapter, n, net)

updateState(cfg, schemas, params, walletAdapter, n, net) ==
  IF getSchema(schemas, params.schemaId).res # "ok"
  THEN StateFailure("NotFoundError", 0, 0, 0)
  ELSE
    LET key == normalizeKey(params.symmetricKeySeed)
        encR == encryptPayload(params.data, key, n)
    IN
    IF encR.err # "none" THEN StateFailure(encR.err, 1, 0, 0)
    ELSE
      LET encrypted == encR.val
          newCommitment == hashCommitment(encrypted.ciphertext)
          onChain == onChainConfigured(cfg.programId, walletAdapter)
          ix == createInstruction(cfg.programId,
                                  <<"update", params.previousCommitment, newCommitment>>)
          tx == IF onChain THEN buildAndSendTransaction(walletAdapter, ix, net)
                ELSE [err |-> "none", txSig |-> None, sends |-> 0]
          chainCalls == IF onChain THEN 1 ELSE 0
      IN
      IF tx.err # "none" THEN StateFailure(tx.err, 1, chainCalls, tx.sends)
      ELSE [res |-> "ok",
            state |-> [id |-> IF params.stateId # None THEN params.stateId
                              ELSE deriveId(newCommitment, params.owner),
                       commitment |-> newCommitment, owner |-> params.owner],
            encrypted |-> encrypted,
            enc |-> 1, chain |-> chainCalls, sends |-> tx.sends]

(* What the prover answers to POST /generate-proof. *)
ProofResponses == {"ok", "networkError", "notOk"}

generateProof(cfg, params, resp) ==
  IF Configured(cfg.provingServiceUrl)
  THEN IF resp = "ok"
       THEN [res |-> "ok", val |-> <<"proof", "remote", params.stateId>>, http |-> 1]
       ELSE [res |-> "Error", val |-> None, http |-> 1]
  ELSE [res |-> "ok", val |-> <<"proof", "mock", params.stateId>>, http |-> 0]

submitProofUnchecked(cfg, params, walletAdapter, net) ==
  LET ix == createInstruction(cfg.programId,
                              <<"submit_proof", params.stateId, params.proof>>)
      tx == buildAndSendTransaction(walletAdapter, ix, net)
  IN [res |-> IF tx.err = "none" THEN "ok" ELSE tx.err, val |-> tx.txSig,
      chain |-> 1, sends |-> tx.sends]

submitProof(cfg, params, walletAdapter, net) ==
  IF ~Configured(cfg.programId)
  THEN [res |-> "ConfigError", val |-> None, chain |-> 0, sends |-> 0]
  ELSE IF ~walletAdapter.given
  THEN [res |-> "ConfigError", val |-> None, chain |-> 0, sends |-> 0]
  ELSE
    LET ix == createInstruction(cfg.programId,
                                <<"submit_proof", params.stateId, params.proof>>)
        tx == buildAndSendTransaction(walletAdapter, ix, net)
    IN [res |-> IF tx.err = "none" THEN "ok" ELSE tx.err, val |-> tx.txSig,
        chain |-> 1, sends |-> tx.sends]

getStateCommitment(cfg, stateId) == [res |-> "ok", val |-> None]

decryptWithSeedDeriving(encrypted, seedOrKey) ==
  decryptPayload(encrypted, deriveKeyFromSeed(seedOrKey))

decryptWithSeed(encrypted, seedOrKey) == decryptPayload(encrypted, normalizeKey(seedOrKey))

(******************************** behaviour ********************************)
(* last: the most recent call, its arguments, its outcome and what it did   *)
(* on the way (encryptions, chain submissions, transaction sends, HTTP      *)
(* requests).                                                               *)
(* hist: for every job id a submitJob has returned on the mock path,         *)
(* whether _setMockResult has been invoked for it since ("resultSet") or not *)
(* ("submitted").  It is a history of the calls, not a field of the client.  *)
(* Where createState calls are compared (SpecFresh) it holds instead the     *)
(* parameters and the handle of the latest successful createState before     *)
(* the latest call.                                                          *)
Call(op, arg, in, res, val, enc, chain, sends, http) ==
  [op |-> op, arg |-> arg, in |-> in, res |-> res, val |-> val,
   enc |-> enc, chain |-> chain, sends |-> sends, http |-> http]

NoCall == Call("init", None, None, "ok", None, 0, 0, 0, 0)

(* Registered job types come with every seed; an unregistered one is        *)
(* rejected before the seed is looked at.                                   *)
SubmitParams ==
  [jobType : JobTypes, owner : JobOwners, input : JobInputs, symmetricKeySeed : Seeds]
  \cup [jobType : JobTypeArgs \ JobTypes, owner : JobOwners, input : JobInputs,
        symmetricKeySeed : {<<"raw", 6, 1>>}]

(* A job id that some submitJob can return, used to ask about a job that may *)
(* or may not be in the store.                                               *)
SomeCommitment ==
  hashCommitment(encryptPayload(CHOOSE v \in JobInputs : TRUE,
                                normalizeKey(<<"raw", 6, 1>>), 1).val.ciphertext)

SomeJobId == deriveId(SomeCommitment, "ownerA")

(* A commitment no createState or updateState returns. *)
ForeignCommitment == hashCommitment(<<"raw", 3, 9>>)

ProbeIds == (DOMAIN mockJobs) \cup {SomeJobId}

InitWith(configs) ==
  /\ config \in configs
  /\ registry = EmptyMap
  /\ mockJobs = EmptyMap
  /\ schemaRegistry = EmptyMap
  /\ hist = EmptyMap
  /\ last = NoCall

Init == InitWith(ComputeConfigs)

RegisterJobType ==
  \E name \in JobTypes \cup {""} :
    LET r == registerJobType(registry, [name |-> name]) IN
    /\ registry' = r.registry
    /\ last' = Call("registerJobType", name, None, r.res, None, 0, 0, 0, 0)
    /\ UNCHANGED <<config, mockJobs, schemaRegistry, hist>>

SubmitJobOver(paramSet) ==
  \E params \in paramSet, env \in ChainEnvs(config.computeProgramId),
     n \in Nonces, now \in Times,
     post \in (IF Configured(config.provingServiceUrl) THEN PostOutcomes ELSE {"none"}) :
    LET walletAdapter == env.walletAdapter
        net == env.net
        r == submitJob(config, registry, mockJobs, params, walletAdapter, n, net, post, now)
    IN
    /\ Cardinality(DOMAIN r.mockJobs) <= MaxJobs
    /\ mockJobs' = r.mockJobs
    /\ hist' = IF r.res = "ok" /\ ~Configured(config.provingServiceUrl)
               THEN MapSet(hist, r.jobId, "submitted") ELSE hist
    /\ last' = Call("submitJob", params.jobType,
                    IF Configured(config.provingServiceUrl)
                    THEN [params |-> params, walletAdapter |-> walletAdapter, n |-> n,
                          net |-> net, post |-> post, now |-> now]
                    ELSE None,
                    r.res,
                    [jobId |-> r.jobId, txSig |-> r.txSig, commitment |-> r.commitment,
                     owner |-> IF r.res = "ok" THEN params.owner ELSE ""],
                    r.enc, r.chain, r.sends, r.http)
    /\ UNCHANGED <<config, registry, schemaRegistry>>

SubmitJob == SubmitJobOver(SubmitParams)

GetJobStatus ==
  \E jobId \in ProbeIds,
     resp \in (IF Configured(config.provingServiceUrl) THEN StatusResponses ELSE {NoResponse}) :
    LET r == getJobStatus(config, mockJobs, jobId, resp) IN
    /\ last' = Call("getJobStatus", jobId, resp, r.res, r.val, 0, 0, 0, r.http)
    /\ UNCHANGED <<config, registry, mockJobs, schemaRegistry, hist>>

FetchResult ==
  \E jobId \in ProbeIds, symmetricKeySeed \in Seeds,
     resp \in (IF Configured(config.provingServiceUrl) THEN ResultResponses
               ELSE {NoResultResponse}) :
    LET r == fetchResult(config, mockJobs, jobId, symmetricKeySeed, resp) IN
    /\ last' = Call("fetchResult", jobId,
                    [symmetricKeySeed |-> symmetricKeySeed, resp |-> resp],
                    r.res, r.val, 0, 0, 0, r.http)
    /\ UNCHANGED <<config, registry, mockJobs, schemaRegistry, hist>>

SetMockResult ==
  \E jobId \in ProbeIds, encryptedPayload \in MockResultEnvelopes :
    LET r == setMockResult(mockJobs, jobId, encryptedPayload) IN
    /\ mockJobs' = r.mockJobs
    /\ hist' = IF jobId \in DOMAIN hist THEN MapSet(hist, jobId, "resultSet") ELSE hist
    /\ last' = Call("_setMockResult", jobId, encryptedPayload, r.res, None, 0, 0, 0, 0)
    /\ UNCHANGED <<config, registry, schemaRegistry>>

Next ==
  \/ RegisterJobType
  \/ SubmitJob
  \/ GetJobStatus
  \/ FetchResult
  \/ SetMockResult

Spec == Init /\ [][Next]_vars

(* The private-state client. *)
CreateParams ==
  [schemaId : SchemaIdArgs, owner : Owners, data : Values, symmetricKeySeed : Seeds]

UpdateParams ==
  [schemaId : SchemaIdArgs, owner : Owners, data : {ObjV(<<"b">>, NumV(42))},
   symmetricKeySeed : Seeds,
   stateId : {None, SomeJobId}, previousCommitment : {SomeCommitment, ForeignCommitment}]

DefineSchema ==
  \E schema \in SchemaArgs :
    LET r == defineSchema(schemaRegistry, schema) IN
    /\ schemaRegistry' = r.schemaRegistry
    /\ last' = Call("defineSchema", schema.id, schema, r.res, None, 0, 0, 0, 0)
    /\ UNCHANGED <<config, registry, mockJobs, hist>>

CreateStateOver(paramSet) ==
  \E params \in paramSet, env \in ChainEnvs(config.programId), n \in Nonces :
    LET r == createState(config, schemaRegistry, params, env.walletAdapter, n, env.net) IN
    /\ last' = Call("createState", params.schemaId,
                    [params |-> params, walletAdapter |-> env.walletAdapter],
                    r.res, [state |-> r.state, encrypted |-> r.encrypted],
                    r.enc, r.chain, r.sends, 0)
    /\ UNCHANGED <<config, registry, mockJobs, schemaRegistry, hist>>

CreateState == CreateStateOver(CreateParams)

UpdateStateOver(paramSet) ==
  \E params \in paramSet, env \in ChainEnvs(config.programId), n \in Nonces :
    LET r == updateState(config, schemaRegistry, params, env.walletAdapter, n, env.net) IN
    /\ last' = Call("updateState", params.schemaId,
                    [params |-> params, walletAdapter |-> env.walletAdapter],
                    r.res, [state |-> r.state, encrypted |-> r.encrypted],
                    r.enc, r.chain, r.sends, 0)
    /\ UNCHANGED <<config, registry, mockJobs, schemaRegistry, hist>>

UpdateState == UpdateStateOver(UpdateParams)

GenerateProof ==
  \E encryptedPayload \in ResultEnvelopes,
     resp \in (IF Configured(config.provingServiceUrl) THEN ProofResponses ELSE {"none"}) :
    LET params == [stateId |-> SomeJobId, encryptedPayload |-> encryptedPayload,
                   circuit |-> "update_balance_v1"]
        r == generateProof(config, params, resp)
    IN
    /\ last' = Call("generateProof", params.stateId, resp, r.res, r.val, 0, 0, 0, r.http)
    /\ UNCHANGED <<config, registry, mockJobs, schemaRegistry, hist>>

SubmitProof ==
  \E env \in ChainEnvs(config.programId) :
    LET params == [stateId |-> SomeJobId, proof |-> <<"proof", "mock", SomeJobId>>]
        r == submitProof(config, params, env.walletAdapter, env.net)
    IN
    /\ last' = Call("submitProof", params.stateId, [walletAdapter |-> env.walletAdapter],
                    r.res, r.val, 0, r.chain, r.sends, 0)
    /\ UNCHANGED <<config, registry, mockJobs, schemaRegistry, hist>>

GetStateCommitment ==
  LET r == getStateCommitment(config, SomeJobId) IN
  /\ last' = Call("getStateCommitment", SomeJobId, None, r.res, r.val, 0, 0, 0, 0)
  /\ UNCHANGED <<config, registry, mockJobs, schemaRegistry, hist>>

DecryptWithSeed ==
  \E encrypted \in ResultEnvelopes, seedOrKey \in Seeds :
    LET r == decryptWithSeed(encrypted, seedOrKey) IN
    /\ last' = Call("decryptWithSeed", encrypted,
                    [seedOrKey |-> seedOrKey],
                    IF r.err = "none" THEN "ok" ELSE r.err, r.val, 0, 0, 0, 0)
    /\ UNCHANGED <<config, registry, mockJobs, schemaRegistry, hist>>

InitState == InitWith(StateConfigs)

NextState ==
  \/ DefineSchema
  \/ CreateState
  \/ UpdateState
  \/ GenerateProof
  \/ SubmitProof
  \/ GetStateCommitment
  \/ DecryptWithSeed

SpecState == InitState /\ [][NextState]_vars

(* The ZkPrimeClient facade: both clients over one configuration, for the    *)
(* operations that hand out ids.                                            *)
ClientConfigs ==
  {[rpcEndpoint |-> "rpc", programId |-> "", computeProgramId |-> "",
    provingServiceUrl |-> ""],
   [rpcEndpoint |-> "rpc", programId |-> "stateProg", computeProgramId |-> "computeProg",
    provingServiceUrl |-> "coord"]}

ClientSeeds == {<<"raw", 6, 1>>}

ClientSubmitParams ==
  [jobType : JobTypes, owner : Owners, input : JobInputs, symmetricKeySeed : ClientSeeds]

ClientCreateParams ==
  [schemaId : {"s1"}, owner : Owners, data : JobInputs, symmetricKeySeed : ClientSeeds]

ClientUpdateParams ==
  [schemaId : {"s1"}, owner : Owners, data : JobInputs, symmetricKeySeed : ClientSeeds,
   stateId : {None, SomeJobId}, previousCommitment : {SomeCommitment}]

InitClient == InitWith(ClientConfigs)

NextClient ==
  \/ RegisterJobType
  \/ DefineSchema
  \/ SubmitJobOver(ClientSubmitParams)
  \/ CreateStateOver(ClientCreateParams)
  \/ UpdateStateOver(ClientUpdateParams)

SpecClient == InitClient /\ [][NextClient]_vars

(* The envelope helpers on their own, and createState followed by           *)
(* decryptWithSeed on the envelope it returned.                             *)
CryptoValues ==
  Values \cup {NumV(0), StrV(<<>>), NullV, ObjV(<<"a">>, ObjV(<<"b">>, NumV(7))),
               NaNV, ObjV(<<"b">>, NaNV)}

(* Keys of 32 bytes and of other lengths. *)
KeyArgs == {normalizeKey(sd) : sd \in Seeds} \cup {<<"raw", 16, 3>>, <<"raw", 33, 4>>}

(* Seeds and keys handed to normalizeKey. *)
SeedOrKeyArgs ==
  Seeds \cup KeyArgs \cup {<<"raw", 0, 5>>, <<"raw", 31, 6>>}
  \cup {deriveKeyFromSeed(b) : b \in {<<"raw", 0, 5>>, <<"raw", 31, 6>>, <<"raw", 33, 4>>}}

(* What may happen to an envelope between encryptPayload and decryptPayload: *)
(* nothing, another algorithm name, flipped bits in the ciphertext, the      *)
(* nonce or the tag, the tag of another plaintext, or a shortened tag.       *)
Tampers == {"none", "alg", "ciphertext", "iv", "tag", "otherTag", "shortTag"}

Tamper(payload, how) ==
  CASE how = "alg" -> [payload EXCEPT !.alg = "AES-CBC"]
    [] how = "ciphertext" -> [payload EXCEPT !.ciphertext = <<"flip", payload.ciphertext>>]
    [] how = "iv" -> [payload EXCEPT !.iv = randomBytes(0)]
    [] how = "tag" -> [payload EXCEPT !.tag = <<"flip", payload.tag>>]
    [] how = "otherTag" ->
         [payload EXCEPT !.tag = gcmTag(payload.ciphertext[2], payload.iv,
                                        JSONStringify(StrV(<<"9">>)))]
    [] how = "shortTag" -> [payload EXCEPT !.tag = tagPrefix(payload.tag, 4)]
    [] OTHER -> payload

CryptoConfigs ==
  {[rpcEndpoint |-> "rpc", programId |-> "", computeProgramId |-> "",
    provingServiceUrl |-> ""]}

CryptoCreateParams ==
  [schemaId : {"s1"}, owner : {"ownerA"}, data : CryptoValues, symmetricKeySeed : Seeds]

NormalizeKey ==
  \E seedOrKey \in SeedOrKeyArgs :
    /\ last' = Call("normalizeKey", seedOrKey, None, "ok", normalizeKey(seedOrKey),
                    0, 0, 0, 0)
    /\ UNCHANGED <<config, registry, mockJobs, schemaRegistry, hist>>

EncryptPayload ==
  \E data \in CryptoValues, key \in KeyArgs, n \in Nonces :
    LET r == encryptPayload(data, key, n) IN
    /\ last' = Call("encryptPayload", key, [data |-> data, key |-> key],
                    IF r.err = "none" THEN "ok" ELSE r.err, r.val, 1, 0, 0, 0)
    /\ UNCHANGED <<config, registry, mockJobs, schemaRegistry, hist>>

(* decryptPayload on the envelope the preceding encryptPayload returned. *)
DecryptPayload ==
  /\ last.op = "encryptPayload" /\ last.res = "ok"
  /\ \E key \in KeyArgs, how \in Tampers :
       LET payload == Tamper(last.val, how)
           r == decryptPayload(payload, key)
       IN
       /\ last' = Call("decryptPayload", payload,
                       [key |-> key, how |-> how, data |-> last.in.data,
                        encryptedUnder |-> last.in.key],
                       IF r.err = "none" THEN "ok" ELSE r.err, r.val, 0, 0, 0, 0)
       /\ UNCHANGED <<config, registry, mockJobs, schemaRegistry, hist>>

(* decryptWithSeed on the envelope the preceding createState returned. *)
DecryptStateWithSeed ==
  /\ last.op = "createState" /\ last.res = "ok"
  /\ \E seedOrKey \in Seeds :
       LET r == decryptWithSeed(last.val.encrypted, seedOrKey) IN
       /\ last' = Call("decryptWithSeed", last.val.encrypted,
                       [seedOrKey |-> seedOrKey, data |-> last.in.params.data,
                        symmetricKeySeed |-> last.in.params.symmetricKeySeed],
                       IF r.err = "none" THEN "ok" ELSE r.err, r.val, 0, 0, 0, 0)
       /\ UNCHANGED <<config, registry, mockJobs, schemaRegistry, hist>>

InitCrypto == InitWith(CryptoConfigs)

NextCrypto ==
  \/ NormalizeKey
  \/ EncryptPayload
  \/ DecryptPayload
  \/ DefineSchema
  \/ CreateStateOver(CryptoCreateParams)
  \/ DecryptStateWithSeed

SpecCrypto == InitCrypto /\ [][NextCrypto]_vars

(* Every operation of the two clients that talks to the coordinator or to   *)
(* the chain, over one configuration.                                       *)
NextNetwork ==
  \/ RegisterJobType
  \/ DefineSchema
  \/ SubmitJobOver(ClientSubmitParams)
  \/ GetJobStatus
  \/ FetchResult
  \/ CreateStateOver(ClientCreateParams)
  \/ UpdateStateOver(ClientUpdateParams)
  \/ GenerateProof
  \/ SubmitProof

SpecNetwork == InitClient /\ [][NextNetwork]_vars

(* createState called again and again, each call remembered for the next.   *)
FreshCreateParams ==
  [schemaId : {"s1"}, owner : Owners, data : Values, symmetricKeySeed : Seeds]

CreateStateAfter(paramSet) ==
  \E params \in paramSet, env \in ChainEnvs(config.programId), n \in Nonces :
    LET r == createState(config, schemaRegistry, params, env.walletAdapter, n, env.net) IN
    /\ last' = Call("createState", params.schemaId,
                    [params |-> params, walletAdapter |-> env.walletAdapter],
                    r.res, [state |-> r.state, encrypted |-> r.encrypted],
                    r.enc, r.chain, r.sends, 0)
    /\ hist' = IF last.op = "createState" /\ last.res = "ok"
               THEN [params |-> last.in.params, state |-> last.val.state,
                     iv |-> last.val.encrypted.iv]
               ELSE hist
    /\ UNCHANGED <<config, registry, mockJobs, schemaRegistry>>

InitFresh == InitWith(CryptoConfigs)

NextFresh ==
  \/ DefineSchema
  \/ CreateStateAfter(FreshCreateParams)

SpecFresh == InitFresh /\ [][NextFresh]_vars

(********************************* claims **********************************)
MockPath == ~Configured(config.provingServiceUrl)

(* C1: with no coordinator configured, getJobStatus(jobId) of a job that     *)
(* submitJob returned answers PENDING as long as _setMockResult(jobId, ...)  *)
(* has not been invoked since, and COMPLETED once it has.                    *)
C1_StatusFollowsMockResult ==
  (MockPath /\ last.op = "getJobStatus" /\ last.arg \in DOMAIN hist)
    => /\ last.res = "ok"
       /\ last.val = IF hist[last.arg] = "resultSet" THEN "COMPLETED" ELSE "PENDING"

C1_Witness ==
  /\ MockPath /\ last.op = "getJobStatus" /\ last.arg \in DOMAIN hist
  /\ hist[last.arg] = "resultSet" /\ last.val = "COMPLETED"

C1_WitnessPending ==
  /\ MockPath /\ last.op = "getJobStatus" /\ last.arg \in DOMAIN hist
  /\ hist[last.arg] = "submitted" /\ last.val = "PENDING"

(* The key under which the job of a record was encrypted by submitJob. *)
KeyOfCommitment(commitment) == commitment[2][2][2]

(* C2: with no coordinator configured, when the job was submitted with seed  *)
(* S and its mock result is V encrypted under normalizeKey(S),               *)
(* fetchResult(jobId, S) returns V.                                          *)
C2_FetchReturnsValue ==
  (MockPath /\ last.op = "fetchResult" /\ last.arg \in DOMAIN mockJobs)
    => LET rec == mockJobs[last.arg]
           S == last.in.symmetricKeySeed
       IN \A v \in Values :
            (/\ KeyOfCommitment(rec.commitment) = normalizeKey(S)
             /\ \E n \in Nonces :
                  rec.resultRef = serializeResult(encryptPayload(v, normalizeKey(S), n).val))
              => (last.res = "ok" /\ last.val = v)

(* C3: submitJob with an unregistered job type fails with NotFoundError      *)
(* before any encryption, chain submission or coordinator request, and       *)
(* leaves the job-type registry and the mock job store unchanged.            *)
C3_UnregisteredSubmitFails ==
  [][(last'.op = "submitJob" /\ last'.arg \notin DOMAIN registry)
       => /\ last'.res = "NotFoundError"
          /\ last'.enc = 0 /\ last'.chain = 0 /\ last'.sends = 0 /\ last'.http = 0
          /\ registry' = registry
          /\ mockJobs' = mockJobs]_vars

C3_Witness ==
  /\ last.op = "submitJob" /\ last.arg \notin DOMAIN registry
  /\ registry # EmptyMap /\ last.res = "NotFoundError"

Completed(jobs, jobId) == jobId \in DOMAIN jobs /\ jobs[jobId].status = "COMPLETED"

(* C4 as stated: once a job's record is COMPLETED, no operation makes it     *)
(* anything else.                                                            *)
C4_CompletedIsTerminal ==
  [][\A jobId \in DOMAIN mockJobs :
       Completed(mockJobs, jobId) => Completed(mockJobs', jobId)]_vars

(* C4 amended: once a job's record is COMPLETED it stays COMPLETED under     *)
(* registerJobType, getJobStatus, fetchResult and _setMockResult; only a     *)
(* submitJob that returns the same job id replaces it by a PENDING record.   *)
C4_CompletedUntilResubmitted ==
  [][\A jobId \in DOMAIN mockJobs :
       Completed(mockJobs, jobId)
         => \/ Completed(mockJobs', jobId)
            \/ /\ last'.op = "submitJob" /\ last'.res = "ok"
               /\ last'.val.jobId = jobId
               /\ jobId \in DOMAIN mockJobs'
               /\ mockJobs'[jobId].status = "PENDING"]_vars

C4_Witness ==
  /\ last.op = "fetchResult" /\ Completed(mockJobs, last.arg)
  /\ hist[last.arg] = "resultSet"

(* C5: with no coordinator configured every stored job record is PENDING or  *)
(* COMPLETED, and getJobStatus returns nothing else.                         *)
C5_MockStatusesPendingOrCompleted ==
  MockPath
    => /\ \A jobId \in DOMAIN mockJobs :
            mockJobs[jobId].status \in {"PENDING", "COMPLETED"}
       /\ (last.op = "getJobStatus" /\ last.res = "ok")
            => last.val \in {"PENDING", "COMPLETED"}

C5_Witness ==
  /\ MockPath /\ last.op = "getJobStatus" /\ last.res = "ok"
  /\ \E jobId \in DOMAIN mockJobs : mockJobs[jobId].status = "COMPLETED"

(* C9: with a coordinator configured getJobStatus returns the coordinator's  *)
(* status when the request succeeds; when the request fails it answers from  *)
(* the mock store: the stored status, or NotFoundError for a job not there.  *)
C9_StatusFallsBackToMockStore ==
  (~MockPath /\ last.op = "getJobStatus")
    => /\ (last.in.kind = "ok" /\ last.in.status # "")
            => (last.res = "ok" /\ last.val = last.in.status)
       /\ (last.in.kind \in {"networkError", "notOk"})
            => IF last.arg \in DOMAIN mockJobs
               THEN last.res = "ok" /\ last.val = mockJobs[last.arg].status
               ELSE last.res = "NotFoundError"

C9_Witness ==
  /\ ~MockPath /\ last.op = "getJobStatus"
  /\ last.in.kind = "networkError" /\ last.res = "NotFoundError"

(* C10: with a coordinator configured and a registered job type, a failed    *)
(* POST to /submit-job is not surfaced: submitJob returns the jobId and the  *)
(* txSig it returns when the POST succeeds.                                  *)
C10_PostFailureNotSurfaced ==
  (/\ ~MockPath /\ last.op = "submitJob" /\ last.http = 1
   /\ last.in.post \in {"networkError", "notOk"})
    => LET good == submitJob(config, registry, mockJobs, last.in.params,
                             last.in.walletAdapter, last.in.n, last.in.net, "ok",
                             last.in.now)
       IN /\ last.res = "ok"
          /\ good.res = "ok"
          /\ last.val.jobId = good.jobId
          /\ last.val.txSig = good.txSig
          /\ last.val.jobId # None

C10_Witness ==
  /\ ~MockPath /\ last.op = "submitJob" /\ last.http = 1
  /\ last.in.post = "networkError" /\ last.res = "ok"
  /\ last.val.txSig # None

IdOf(commitment, owner) == slice(hashCommitment(concat(commitment, owner)), 32)

(* C6 as stated: every handle of createState and updateState and every      *)
(* jobId of submitJob carries the first 32 hex characters of                *)
(* hashCommitment(commitment ++ owner).                                     *)
C6_IdDerivedFromCommitmentAndOwner ==
  /\ (last.op \in {"createState", "updateState"} /\ last.res = "ok")
       => last.val.state.id = IdOf(last.val.state.commitment, last.val.state.owner)
  /\ (last.op = "submitJob" /\ last.res = "ok")
       => last.val.jobId = IdOf(last.val.commitment, last.val.owner)

(* C6 amended: the id of a createState handle, of a submitJob result and of *)
(* an updateState handle made without a stateId is the first 32 hex         *)
(* characters of hashCommitment(commitment ++ owner); updateState called    *)
(* with a stateId returns that stateId as the handle's id.                  *)
C6_IdDerivedUnlessStateIdGiven ==
  /\ (last.op = "createState" /\ last.res = "ok")
       => /\ last.val.state.id = IdOf(last.val.state.commitment, last.val.state.owner)
          /\ last.val.state.owner = last.in.params.owner
          /\ last.val.state.commitment = hashCommitment(last.val.encrypted.ciphertext)
  /\ (last.op = "updateState" /\ last.res = "ok")
       => /\ last.val.state.id =
               IF last.in.params.stateId # None THEN last.in.params.stateId
               ELSE IdOf(last.val.state.commitment, last.val.state.owner)
          /\ last.val.state.owner = last.in.params.owner
          /\ last.val.state.commitment = hashCommitment(last.val.encrypted.ciphertext)
  /\ (last.op = "submitJob" /\ last.res = "ok")
       => /\ last.val.jobId = IdOf(last.val.commitment, last.val.owner)
          /\ MockPath => /\ last.val.jobId \in DOMAIN mockJobs
                         /\ mockJobs[last.val.jobId].commitment = last.val.commitment
                         /\ mockJobs[last.val.jobId].owner = last.val.owner

C6_Witness ==
  /\ last.op = "updateState" /\ last.res = "ok"
  /\ last.in.params.stateId # None
  /\ last.val.state.id # IdOf(last.val.state.commitment, last.val.state.owner)

(* C7: for a defined schema, createState attempts one chain submission when *)
(* a programId is configured and a wallet adapter is passed and none         *)
(* otherwise; without a programId it succeeds with a handle holding a        *)
(* commitment and a 32-character id.                                         *)
C7_CreateStateChainCalls ==
  /\ (last.op = "createState" /\ last.chain > 0)
       => (Configured(config.programId) /\ last.in.walletAdapter.given)
  /\ (last.op = "createState" /\ last.arg \in DOMAIN schemaRegistry)
    => /\ last.chain =
            IF Configured(config.programId) /\ last.in.walletAdapter.given THEN 1 ELSE 0
       /\ last.sends <= last.chain
       /\ ~Configured(config.programId)
            => /\ last.res = "ok"
               /\ last.chain = 0
               /\ StrLen(last.val.state.commitment) = 64
               /\ StrLen(last.val.state.id) = 32

C7_Witness ==
  /\ last.op = "createState" /\ last.res = "ok"
  /\ ~Configured(config.programId) /\ last.in.walletAdapter.given
  /\ last.chain = 0 /\ StrLen(last.val.state.id) = 32

C7_WitnessOnChain ==
  /\ last.op = "createState" /\ last.res = "ok"
  /\ Configured(config.programId) /\ last.chain = 1 /\ last.sends = 1

(* C8: createState and updateState with a schemaId no defineSchema has      *)
(* stored fail with NotFoundError without encrypting, without a chain        *)
(* submission and without changing the schema registry; with a stored        *)
(* schema they do not fail with NotFoundError.                               *)
C8_UndefinedSchemaNotFound ==
  [][(last'.op \in {"createState", "updateState"})
       => IF last'.arg \notin DOMAIN schemaRegistry
          THEN /\ last'.res = "NotFoundError"
               /\ last'.enc = 0 /\ last'.chain = 0 /\ last'.sends = 0
               /\ schemaRegistry' = schemaRegistry
          ELSE last'.res # "NotFoundError"]_vars

C8_Witness ==
  /\ last.op = "updateState" /\ last.arg \notin DOMAIN schemaRegistry
  /\ schemaRegistry # EmptyMap /\ last.res = "NotFoundError"

C8_WitnessDefined ==
  /\ last.op = "createState" /\ last.arg \in DOMAIN schemaRegistry /\ last.res = "ok"

(* C11: a successful submitJob writes the mock job store exactly when no     *)
(* coordinator is configured.  Without a coordinator the store afterwards    *)
(* maps the returned jobId to a record with that id, the given owner and     *)
(* jobType, the computed commitment and status PENDING, and every other      *)
(* entry is as before; with a coordinator the store is unchanged.            *)
C11_SubmitWritesMockStoreIffNoCoordinator ==
  [][(last'.op = "submitJob" /\ last'.res = "ok")
       => IF MockPath
          THEN LET jobId == last'.val.jobId IN
               /\ DOMAIN mockJobs' = (DOMAIN mockJobs) \cup {jobId}
               /\ mockJobs'[jobId].id = jobId
               /\ mockJobs'[jobId].owner = last'.val.owner
               /\ mockJobs'[jobId].jobType = last'.arg
               /\ mockJobs'[jobId].commitment = last'.val.commitment
               /\ mockJobs'[jobId].status = "PENDING"
               /\ \A other \in (DOMAIN mockJobs) \ {jobId} :
                    mockJobs'[other] = mockJobs[other]
          ELSE mockJobs' = mockJobs]_vars

C11_Witness ==
  /\ MockPath /\ last.op = "submitJob" /\ last.res = "ok"
  /\ \E other \in (DOMAIN mockJobs) \ {last.val.jobId} : Completed(mockJobs, other)
  /\ mockJobs[last.val.jobId].status = "PENDING"

C11_WitnessCoordinator ==
  /\ ~MockPath /\ last.op = "submitJob" /\ last.res = "ok" /\ mockJobs = EmptyMap

(* The variables, led by the operation and outcome of the latest call: a    *)
(* step changes callVars exactly when it changes vars.                      *)
callVars == <<last.op, last.res, vars>>

(* C12: with no coordinator configured, fetchResult(jobId, seed) fails with  *)
(* NotFoundError whenever jobId is not in the mock store or no mock result   *)
(* has been set for it since submitJob last wrote its record; such a call,   *)
(* in particular one between submitJob and _setMockResult, changes no state. *)
C12_FetchWithoutMockResultNotFound ==
  [][(/\ MockPath /\ last'.op = "fetchResult"
      /\ \/ last'.arg \notin DOMAIN mockJobs
         \/ (last'.arg \in DOMAIN hist /\ hist[last'.arg] = "submitted"))
       => /\ last'.res = "NotFoundError"
          /\ last'.val = None
          /\ UNCHANGED <<config, registry, mockJobs, schemaRegistry, hist>>]_callVars

C12_Witness ==
  /\ MockPath /\ last.op = "fetchResult"
  /\ last.arg \in DOMAIN mockJobs /\ last.arg \in DOMAIN hist
  /\ hist[last.arg] = "submitted" /\ last.res = "NotFoundError"
  /\ \E other \in DOMAIN hist : hist[other] = "resultSet"

C12_WitnessAbsent ==
  /\ MockPath /\ last.op = "fetchResult"
  /\ last.arg \notin DOMAIN mockJobs /\ mockJobs # EmptyMap
  /\ last.res = "NotFoundError"

(* C13 as stated: whether submitJob (with a registered job type) posts to    *)
(* the coordinator or records the mock job depends only on the               *)
(* configuration, whatever the on-chain submission did.                      *)
C13_CoordinatorOrMockWhateverChainDid ==
  (last.op = "submitJob" /\ last.res # "NotFoundError")
    => IF MockPath
       THEN last.http = 0 /\ last.val.jobId \in DOMAIN mockJobs
       ELSE last.http = 1 /\ mockJobs = EmptyMap

(* C13 amended: a submitJob whose on-chain submission was not attempted or   *)
(* succeeded posts to the coordinator exactly when one is configured and     *)
(* records the mock job exactly when none is; an on-chain submission that    *)
(* fails makes submitJob fail with that error before either happens.         *)
C13_CoordinatorOrMockUnlessChainFails ==
  [][(last'.op = "submitJob" /\ last'.res # "NotFoundError")
       => IF last'.res # "ok"
          THEN /\ last'.chain = 1
               /\ last'.res \in {"RPCError", "Error"}
               /\ last'.http = 0
               /\ mockJobs' = mockJobs
          ELSE /\ last'.chain = 1 => (last'.sends = 1 /\ last'.val.txSig # None)
               /\ IF MockPath
                  THEN /\ last'.http = 0
                       /\ last'.val.jobId \in DOMAIN mockJobs'
                       /\ mockJobs'[last'.val.jobId].status = "PENDING"
                  ELSE last'.http = 1 /\ mockJobs' = mockJobs]_callVars

C13_Witness ==
  /\ last.op = "submitJob" /\ last.res = "ok" /\ MockPath
  /\ last.chain = 1 /\ last.sends = 1 /\ last.val.txSig # None
  /\ last.val.jobId \in DOMAIN mockJobs

C13_WitnessCoordinatorOnly ==
  /\ last.op = "submitJob" /\ last.res = "ok" /\ ~MockPath
  /\ last.chain = 0 /\ last.http = 1

C13_WitnessChainFails ==
  /\ last.op = "submitJob" /\ last.res = "RPCError" /\ ~MockPath
  /\ last.chain = 1 /\ last.http = 0

C14_WitnessStored ==
  /\ last.op = "defineSchema" /\ last.res = "ok"
  /\ getSchema(schemaRegistry, "s1").val = last.in

(* The values JSON text represents exactly. *)
RECURSIVE IsJSONValue(_)
IsJSONValue(v) ==
  \/ v[1] \in {"num", "str", "null"}
  \/ v[1] = "obj" /\ IsJSONValue(v[3])

(* decryptPayload of an untouched envelope under the key it was made with,   *)
(* and decryptWithSeed with the seed createState was given.                  *)
DecryptsOwnEnvelope ==
  \/ /\ last.op = "decryptPayload" /\ last.in.how = "none"
     /\ last.in.key = last.in.encryptedUnder
  \/ /\ last.op = "decryptWithSeed"
     /\ last.in.seedOrKey = last.in.symmetricKeySeed

(* C15 as stated: for every 32-byte key K and value V,                       *)
(* decryptPayload(encryptPayload(V, K), K) = V, and for every seed S and     *)
(* data D decryptWithSeed with S on the envelope of                          *)
(* createState(data = D, symmetricKeySeed = S) returns D.                    *)
C15_RoundTripEveryValue ==
  DecryptsOwnEnvelope => (last.res = "ok" /\ last.val = last.in.data)

(* C15 amended: the round trip returns V (and D) for every value that JSON   *)
(* represents exactly; for a value it does not represent, such as NaN or an  *)
(* object holding NaN, decryption succeeds and returns a different value.    *)
C15_RoundTripJSONValues ==
  DecryptsOwnEnvelope
    => /\ last.res = "ok"
       /\ IsJSONValue(last.in.data) <=> (last.val = last.in.data)

C15_Witness ==
  /\ last.op = "decryptWithSeed" /\ last.in.seedOrKey = last.in.symmetricKeySeed
  /\ ByteLen(last.in.seedOrKey) = 32
  /\ last.in.data = ObjV(<<"b">>, NumV(42)) /\ last.val = last.in.data

C15_WitnessPayload ==
  /\ last.op = "decryptPayload" /\ last.in.how = "none"
  /\ last.in.key = last.in.encryptedUnder
  /\ last.in.data = ObjV(<<"a">>, ObjV(<<"b">>, NumV(7))) /\ last.val = last.in.data

C15_WitnessNaN ==
  /\ last.op = "decryptPayload" /\ last.in.how = "none"
  /\ last.in.key = last.in.encryptedUnder
  /\ last.in.data = NaNV /\ last.val = NullV

(* C16: normalizeKey returns a 32-byte input unchanged and                  *)
(* deriveKeyFromSeed(input), which is 32 bytes long, for an input of any     *)
(* other length; so a seed s of another length and deriveKeyFromSeed(s)      *)
(* normalize to the same key.                                                *)
C16_NormalizeKeyKeepsOrDerives ==
  (last.op = "normalizeKey")
    => LET s == last.arg IN
       IF ByteLen(s) = 32 THEN last.val = s
       ELSE /\ last.val = deriveKeyFromSeed(s)
            /\ ByteLen(last.val) = 32
            /\ normalizeKey(deriveKeyFromSeed(s)) = last.val

C16_Witness ==
  /\ last.op = "normalizeKey" /\ ByteLen(last.arg) = 32
  /\ last.arg = deriveKeyFromSeed(<<"raw", 6, 1>>) /\ last.val = last.arg

C16_WitnessDerived ==
  /\ last.op = "normalizeKey" /\ ByteLen(last.arg) = 33
  /\ last.val = deriveKeyFromSeed(last.arg)

(* An envelope encryptPayload returns for some value under this key. *)
ProducedUnder(payload, key) ==
  /\ ByteLen(key) = 32
  /\ \E v \in CryptoValues, n \in Nonces : encryptPayload(v, key, n).val = payload

(* C17: decryptPayload fails with CryptoError and returns no value whenever  *)
(* the key is not 32 bytes long, the envelope's algorithm is not AES-GCM, or *)
(* the envelope differs in its ciphertext, tag or nonce from every envelope  *)
(* encryptPayload produces under that key; encryptPayload fails with         *)
(* CryptoError whenever the key is not 32 bytes long.                        *)
C17_BadKeyOrTamperedEnvelopeFails ==
  /\ (last.op = "decryptPayload"
      /\ \/ ByteLen(last.in.key) # 32
         \/ last.arg.alg # "AES-GCM"
         \/ ~ProducedUnder(last.arg, last.in.key))
       => (last.res = "CryptoError" /\ last.val = None)
  /\ (last.op = "encryptPayload" /\ ByteLen(last.arg) # 32)
       => (last.res = "CryptoError" /\ last.val = None)

(* What does hold: every alteration other than a shortened tag is rejected. *)
C17_RejectedUnlessTagShortened ==
  /\ (last.op = "decryptPayload"
      /\ \/ ByteLen(last.in.key) # 32
         \/ last.arg.alg # "AES-GCM"
         \/ ~ProducedUnder(last.arg, last.in.key))
       => \/ last.res = "CryptoError" /\ last.val = None
          \/ last.in.how = "shortTag" /\ last.in.key = last.in.encryptedUnder
  /\ (last.op = "encryptPayload" /\ ByteLen(last.arg) # 32)
       => (last.res = "CryptoError" /\ last.val = None)

C17_WitnessShortTag ==
  /\ last.op = "decryptPayload" /\ last.in.how = "shortTag"
  /\ last.res = "ok" /\ last.val = last.in.data

(* The latest call is a successful createState and an earlier successful     *)
(* createState on this client had the same schemaId, owner, data and seed.   *)
CreatedTwice ==
  /\ last.op = "createState" /\ last.res = "ok"
  /\ DOMAIN hist # {}
  /\ hist.params = last.in.params

(* C18 as stated: two createState calls with the same schemaId, owner, data  *)
(* and symmetricKeySeed return different commitments and different ids.      *)
C18_EqualInputsDifferentCommitments ==
  CreatedTwice
    => /\ last.val.state.commitment # hist.state.commitment
       /\ last.val.state.id # hist.state.id

(* C18 amended: two createState calls with the same inputs return different  *)
(* commitments, and different ids, exactly when randomBytes gave them        *)
(* different nonces; equal inputs do not force equal commitments.            *)
C18_CommitmentsDifferWithNonces ==
  CreatedTwice
    => /\ (last.val.state.commitment # hist.state.commitment)
            <=> (last.val.encrypted.iv # hist.iv)
       /\ (last.val.state.id # hist.state.id)
            <=> (last.val.state.commitment # hist.state.commitment)

C18_Witness ==
  /\ CreatedTwice
  /\ last.val.state.commitment # hist.state.commitment
  /\ last.val.state.id # hist.state.id

C18_WitnessSameNonce ==
  /\ CreatedTwice
  /\ last.val.encrypted.iv = hist.iv
  /\ last.val.state.commitment = hist.state.commitment

(* C19: submitProof fails with ConfigError, without attempting a chain       *)
(* submission, when no programId is configured or no wallet adapter is       *)
(* passed; otherwise it attempts exactly one chain submission, whose         *)
(* instruction carries the proof string, and returns the transaction         *)
(* signature of that submission (or fails with the submission's error).      *)
C19_SubmitProofNeedsProgramAndWallet ==
  (last.op = "submitProof")
    => IF ~Configured(config.programId) \/ ~last.in.walletAdapter.given
       THEN /\ last.res = "ConfigError" /\ last.val = None
            /\ last.chain = 0 /\ last.sends = 0
       ELSE /\ last.chain = 1 /\ last.sends <= 1
            /\ last.res # "ConfigError"
            /\ IF last.res = "ok"
               THEN /\ last.sends = 1
                    /\ last.val = <<"sig", createInstruction(config.programId,
                                     <<"submit_proof", last.arg,
                                       <<"proof", "mock", last.arg>>>>)>>
               ELSE last.res \in {"RPCError", "Error"} /\ last.val = None
            /\ (~last.in.walletAdapter.publicKey \/ ~last.in.walletAdapter.signTransaction)
                 => last.res = "RPCError"

C19_Witness ==
  /\ last.op = "submitProof" /\ last.res = "ok"
  /\ last.chain = 1 /\ last.sends = 1 /\ last.val # None

C19_WitnessNoWallet ==
  /\ last.op = "submitProof" /\ last.res = "ConfigError"
  /\ Configured(config.programId) /\ ~last.in.walletAdapter.given

C19_WitnessNoProgram ==
  /\ last.op = "submitProof" /\ last.res = "ConfigError"
  /\ ~Configured(config.programId) /\ last.in.walletAdapter.given

(* C20: updateState never checks previousCommitment.  For a defined schema   *)
(* it fails only when the chain submission it attempts fails, it returns a   *)
(* handle whose commitment is computed from the new ciphertext, and its      *)
(* outcome is the same for every previousCommitment, one that no             *)
(* createState or updateState returned included.                             *)
C20_PreviousCommitmentNeverChecked ==
  (last.op = "updateState" /\ last.arg \in DOMAIN schemaRegistry)
    => /\ last.res # "ok" => (last.chain = 1 /\ last.res \in {"RPCError", "Error"})
       /\ last.chain = 0 => last.res = "ok"
       /\ last.res = "ok"
            => /\ last.val.state.commitment =
                    hashCommitment(last.val.encrypted.ciphertext)
               /\ last.val.state.commitment # last.in.params.previousCommitment
       /\ \A pc \in {SomeCommitment, ForeignCommitment}, n \in Nonces, net \in NetOutcomes :
            LET asCalled == updateState(config, schemaRegistry, last.in.params,
                                        last.in.walletAdapter, n, net)
                withOther == updateState(config, schemaRegistry,
                                         [last.in.params EXCEPT !.previousCommitment = pc],
                                         last.in.walletAdapter, n, net)
            IN /\ asCalled.res = withOther.res
               /\ asCalled.state = withOther.state
               /\ asCalled.encrypted = withOther.encrypted

C20_Witness ==
  /\ last.op = "updateState" /\ last.res = "ok"
  /\ last.in.params.previousCommitment = ForeignCommitment
  /\ last.val.state.commitment # ForeignCommitment

C20_WitnessOnChain ==
  /\ last.op = "updateState" /\ last.res = "ok" /\ last.chain = 1
  /\ last.in.params.previousCommitment = ForeignCommitment

(* C21: no retries.  A call of submitJob, getJobStatus, fetchResult or       *)
(* generateProof issues at most one HTTP request to the coordinator (exactly *)
(* one when it gets as far as the request with a coordinator configured,     *)
(* none without), and a call of createState, updateState, submitJob or       *)
(* submitProof makes at most one chain submission and sends at most one      *)
(* transaction, whether the request or the send succeeds or fails.           *)
C21_AtMostOneRequestAndOneSend ==
  /\ last.op \in {"submitJob", "getJobStatus", "fetchResult", "generateProof"}
       => /\ last.http <= 1
          /\ MockPath => last.http = 0
  /\ (last.op \in {"getJobStatus", "fetchResult", "generateProof"} /\ ~MockPath)
       => last.http = 1
  /\ (last.op = "submitJob" /\ ~MockPath /\ last.res = "ok") => last.http = 1
  /\ last.op \in {"createState", "updateState", "submitJob", "submitProof"}
       => /\ last.chain <= 1
          /\ last.sends <= last.chain
          /\ (last.chain = 1 /\ last.res = "ok") => last.sends = 1

C21_Witness ==
  /\ last.op = "submitJob" /\ ~MockPath /\ last.res = "ok"
  /\ last.in.post = "networkError" /\ last.http = 1
  /\ last.chain = 1 /\ last.sends = 1

C21_WitnessStatusFails ==
  /\ last.op = "getJobStatus" /\ ~MockPath
  /\ last.in.kind = "networkError" /\ last.http = 1

C21_WitnessSendFails ==
  /\ last.op = "updateState" /\ last.res = "Error"
  /\ last.chain = 1 /\ last.sends = 1

C21_WitnessProofFails ==
  /\ last.op = "generateProof" /\ last.res = "Error" /\ last.http = 1


(* C22: in a client constructed with a coordinator configured the mock job   *)
(* store is empty in every reachable state, a successful submitJob included; *)
(* so a getJobStatus whose coordinator request fails (network error, non-OK  *)
(* response, unreadable body) ends in NotFoundError, never in a status, and  *)
(* every _setMockResult ends in NotFoundError.                               *)
C22_CoordinatorClientHasNoMockJobs ==
  ~MockPath
    => /\ mockJobs = EmptyMap
       /\ (last.op = "submitJob" /\ last.res = "ok")
            => last.val.jobId \notin DOMAIN mockJobs
       /\ (last.op = "getJobStatus" /\ last.in.kind # "ok")
            => (last.res = "NotFoundError" /\ last.val \notin Statuses)
       /\ last.op = "_setMockResult" => last.res = "NotFoundError"

C22_Witness ==
  /\ ~MockPath /\ last.op = "getJobStatus" /\ last.arg = SomeJobId
  /\ last.in.kind = "notOk" /\ last.res = "NotFoundError"

C22_WitnessSubmitted ==
  /\ ~MockPath /\ last.op = "submitJob" /\ last.res = "ok"
  /\ last.val.jobId = SomeJobId /\ last.http = 1 /\ mockJobs = EmptyMap

C22_WitnessBadJson ==
  /\ ~MockPath /\ last.op = "getJobStatus"
  /\ last.in.kind = "badJson" /\ last.res = "NotFoundError"

C22_WitnessSetMockResult ==
  /\ ~MockPath /\ last.op = "_setMockResult" /\ last.arg = SomeJobId
  /\ last.res = "NotFoundError"


(* C23: every entry of the mock job store is stored under its own id, and a  *)
(* record carries a result reference if and only if its status is COMPLETED; *)
(* so on the mock path fetchResult gets past its NotFoundError check exactly *)
(* for the jobs whose getJobStatus answers COMPLETED, and getJobStatus       *)
(* answers the stored status.                                                *)
C23_ResultRefIffCompleted ==
  /\ \A jobId \in DOMAIN mockJobs :
       /\ mockJobs[jobId].id = jobId
       /\ mockJobs[jobId].resultRef # None <=> mockJobs[jobId].status = "COMPLETED"
       /\ mockJobs[jobId].status \in {"PENDING", "COMPLETED"}
  /\ (MockPath /\ last.op = "fetchResult")
       => (last.res # "NotFoundError"
             <=> LET s == getJobStatus(config, mockJobs, last.arg, NoResponse)
                 IN s.res = "ok" /\ s.val = "COMPLETED")
  /\ (MockPath /\ last.op = "getJobStatus")
       => (last.val = "COMPLETED"
             <=> (last.arg \in DOMAIN mockJobs /\ mockJobs[last.arg].resultRef # None))

C23_Witness ==
  /\ MockPath /\ last.op = "fetchResult" /\ last.res # "NotFoundError"
  /\ mockJobs[last.arg].status = "COMPLETED" /\ mockJobs[last.arg].id = last.arg
  /\ \E jobId \in DOMAIN mockJobs :
       mockJobs[jobId].status = "PENDING" /\ mockJobs[jobId].resultRef = None

C23_WitnessPendingNotFound ==
  /\ MockPath /\ last.op = "fetchResult" /\ last.res = "NotFoundError"
  /\ last.arg \in DOMAIN mockJobs /\ mockJobs[last.arg].status = "PENDING"
  /\ \E jobId \in DOMAIN mockJobs : mockJobs[jobId].status = "COMPLETED"

C23_WitnessResubmitted ==
  /\ MockPath /\ last.op = "submitJob" /\ last.res = "ok"
  /\ last.val.jobId \in DOMAIN hist /\ hist[last.val.jobId] = "submitted"
  /\ mockJobs[last.val.jobId].resultRef = None
  /\ \E jobId \in DOMAIN mockJobs : mockJobs[jobId].status = "COMPLETED"

====
